---- MODULE Spec2Model ----
(***************************************************************************)
(* A model of saferequests (src/saferequests/saferequests.py): the         *)
(* settings merger (paramstodict, mergesettings), the retry loop of        *)
(* SafeRequests.request and SafeSession.request, the verb methods and the  *)
(* module-level free functions.                                            *)
(*                                                                         *)
(* Python values are modelled as follows.                                  *)
(*   - an atom is the repr of a Python scalar: "1" is the int 1, "'1'" is  *)
(*     the str '1', "None" is None;                                        *)
(*   - a params value is Atom(a) or ListOf(<<a1, ..., an>>);               *)
(*   - a mapping (dict) is a sequence of <<key, value>> pairs with         *)
(*     distinct keys, in insertion order;                                  *)
(*   - an object handed in as params is Obj(type, items): a dict, a list   *)
(*     of pairs, a str or bytes query string k=v&k=v (items are the raw    *)
(*     pairs of the string), a tuple of pairs, or None.                    *)
(***************************************************************************)
EXTENDS Integers, Sequences, FiniteSets, TLC

\* ------------------------------------------------------------ bounds
MaxCalls == 2
MaxPairs == 3
MaxLimit == 3
MaxDelay == 2
MaxBackoff == 3
MaxDur == 2
MaxItems == 2

\* ------------------------------------------------- program constants
\* (DefaultCodesFrom501 is a default list whose range starts one too late.)
DEFAULT_DELAY == 1
DEFAULT_LIMIT == 10
DefaultCodesFrom501 == {429} \cup (501..511)
DEFAULT_CODES == {429} \cup (500..511)
DEFAULT_EXP_BACKOFF == FALSE
DEFAULT_MAX_EXP_BACKOFF == 60
DEFAULT_EXCEPTIONS == {"ConnectionError", "Timeout"}

\* The names bound in the module's global namespace once it is imported:
\* the imports, the DEFAULT_ constants, the two helper functions, the two
\* classes and the eight free functions.  (SafeRequests.root is a class
\* attribute, not a module-level name.)
ModuleNames ==
    {"requests", "time", "List", "Union", "Tuple", "logging", "datetime",
     "timedelta", "Mapping", "CaseInsensitiveDict", "parse_qs", "urlparse",
     "DEFAULT_EXCEPTIONS", "DEFAULT_DELAY", "DEFAULT_LIMIT", "DEFAULT_CODES",
     "DEFAULT_EXP_BACKOFF", "DEFAULT_MAX_EXP_BACKOFF", "__all__",
     "paramstodict", "mergesettings", "SafeSession", "SafeRequests",
     "request", "get", "options", "head", "post", "put", "patch", "delete"}

\* The exception classes the transport (requests) can raise in the model:
\* two subclasses of the default retryable pair and one that is neither.
TransportErrors == {"ConnectionError", "Timeout", "TooManyRedirects"}

\* ------------------------------------------------------ Python values
Atom(a) == [list |-> FALSE, v |-> <<a>>]
ListOf(s) == [list |-> TRUE, v |-> s]
None == Atom("None")
Obj(t, its) == [type |-> t, items |-> its]
NoneObj == Obj("NoneType", <<>>)
EmptyDict == Obj("dict", <<>>)

\* bool(x) for the objects of the model: None and empty containers are falsy.
Truthy(o) == o.type # "NoneType" /\ o.items # <<>>

Keys(d) == {d[i][1] : i \in DOMAIN d}
HasKey(d, k) == \E i \in DOMAIN d : d[i][1] = k
Lookup(d, k) == d[CHOOSE i \in DOMAIN d : d[i][1] = k][2]

\* d[k] = v on a dict: an existing key keeps its position.
DictSet(d, k, v) ==
    IF HasKey(d, k)
    THEN [i \in DOMAIN d |-> IF d[i][1] = k THEN <<k, v>> ELSE d[i]]
    ELSE Append(d, <<k, v>>)

\* d.update(pairs), and with d = {} the comprehension {v[0]: v[1] for v in pairs}.
RECURSIVE DictUpdate(_, _)
DictUpdate(d, pairs) ==
    IF pairs = <<>> THEN d
    ELSE DictUpdate(DictSet(d, Head(pairs)[1], Head(pairs)[2]), Tail(pairs))

\* urllib.parse.unquote_plus on the raw tokens of the model.
Unquote(raw) ==
    CASE raw = "%31" -> "1"
      [] raw = "%32" -> "2"
      [] OTHER -> raw

\* urllib.parse.parse_qs(decoded): blank values are dropped, names and
\* values are percent-decoded, and each name maps to the list of its values.
RECURSIVE parse_qs(_)
parse_qs(pairs) ==
    IF pairs = <<>> THEN <<>>
    ELSE LET rest == parse_qs(Tail(pairs))
             k == Head(pairs)[1]
             raw == Head(pairs)[2]
             val == "'" \o Unquote(raw) \o "'"
         IN IF raw = "" THEN rest
            ELSE IF HasKey(rest, k)
                 THEN <<<<k, <<val>> \o Lookup(rest, k)>>>>
                      \o SelectSeq(rest, LAMBDA p : p[1] # k)
                 ELSE <<<<k, <<val>>>>>> \o rest

\* A normalisation that takes a tuple of pairs as it takes a list of pairs.
paramstodictAnyPairs(params) ==
    CASE params.type = "dict" -> Obj("dict", params.items)
      [] params.type \in {"list", "tuple"} ->
           Obj("dict", DictUpdate(<<>>, params.items))
      [] OTHER -> NoneObj

\* paramstodict (lines 31-48).  The result is a dict object; an argument
\* that is neither a dict, a list nor a str/bytes falls off the end of the
\* function, which returns None.
paramstodict(params) ==
    CASE params.type = "dict" -> Obj("dict", params.items)
      [] params.type = "list" -> Obj("dict", DictUpdate(<<>>, params.items))
      [] params.type \in {"str", "bytes"} ->
           LET q == parse_qs(params.items)
           IN Obj("dict", [i \in DOMAIN q |->
                 <<q[i][1], IF Len(q[i][2]) = 1 THEN Atom(q[i][2][1])
                                                ELSE ListOf(q[i][2])>>])
      [] OTHER -> NoneObj

\* str.lower() on the header names of the model.
Lower(k) ==
    CASE k \in {"X-Foo", "x-foo", "X-FOO"} -> "x-foo"
      [] k \in {"X-Bar", "x-bar"} -> "x-bar"
      [] OTHER -> k

\* CaseInsensitiveDict.__setitem__: the store is keyed by key.lower() and
\* remembers the last spelling set; an existing entry keeps its position.
CISet(store, k, v) ==
    IF \E i \in DOMAIN store : Lower(store[i][1]) = Lower(k)
    THEN [i \in DOMAIN store |->
            IF Lower(store[i][1]) = Lower(k) THEN <<k, v>> ELSE store[i]]
    ELSE Append(store, <<k, v>>)

\* CaseInsensitiveDict(data) and CaseInsensitiveDict.update(data).
RECURSIVE CIUpdate(_, _)
CIUpdate(store, pairs) ==
    IF pairs = <<>> THEN store
    ELSE CIUpdate(CISet(store, Head(pairs)[1], Head(pairs)[2]), Tail(pairs))

\* A final comprehension that keeps every entry.
KeepNone(d) == d

\* The dict comprehension of line 64: entries whose value is None are dropped.
DropNone(d) == SelectSeq(d, LAMBDA p : p[2] # None)

Returned(o) == [raised |-> "", value |-> o]
Raised(e) == [raised |-> e, value |-> NoneObj]

\* A headers merge in which the persistent value wins a collision.
MergedHeadersPersistentWins(request_setting, persistant_setting) ==
    CIUpdate(CIUpdate(<<>>, request_setting), persistant_setting)

\* Lines 58-59: CaseInsensitiveDict(persistant_setting), then
\* update(request_setting).
MergedHeaders(request_setting, persistant_setting) ==
    CIUpdate(CIUpdate(<<>>, persistant_setting), request_setting)

\* A params merge in which the persistent value wins a collision.
MergedParamsPersistentWins(request_dict, persistant_dict) ==
    DictUpdate(request_dict, persistant_dict)

\* Lines 61-62: the normalized persistent params, updated with the
\* normalized per-call params.
MergedParams(request_dict, persistant_dict) ==
    DictUpdate(persistant_dict, request_dict)

\* mergesettings (lines 50-66).  The result is Returned(object) or
\* Raised(exception class).  With paramstodict returning None for an
\* unsupported argument, lines 61-62 fail: None has no update (persistent
\* side, AttributeError) and update(None) is not iterable (per-call side,
\* TypeError).
mergesettings(request_setting, persistant_setting, setting_type) ==
    IF ~Truthy(persistant_setting) THEN Returned(request_setting)
    ELSE IF ~Truthy(request_setting) THEN Returned(persistant_setting)
    ELSE IF setting_type = "auth" THEN Returned(request_setting)
    ELSE IF setting_type = "headers"
    THEN Returned(Obj("dict", DropNone(MergedHeaders(request_setting.items,
                                                     persistant_setting.items))))
    ELSE LET p == paramstodict(persistant_setting)
             r == paramstodict(request_setting)
         IN IF p.type = "NoneType" THEN Raised("AttributeError")
            ELSE IF r.type = "NoneType" THEN Raised("TypeError")
            ELSE Returned(Obj("dict", DropNone(MergedParams(r.items, p.items))))

\* A params merge that updates the persistent dict itself, as it would if
\* paramstodict handed a dict back instead of a copy of it.
ArgsAfterInPlace(request_setting, persistant_setting, setting_type) ==
    IF /\ setting_type = "params"
       /\ Truthy(persistant_setting) /\ Truthy(request_setting)
       /\ persistant_setting.type = "dict"
       /\ paramstodict(request_setting).type = "dict"
    THEN <<request_setting,
           Obj("dict", MergedParams(paramstodict(request_setting).items,
                                    persistant_setting.items))>>
    ELSE <<request_setting, persistant_setting>>

\* The two arguments of mergesettings as they are once it has returned or
\* raised.  The only statements that modify an object are the two update
\* calls (lines 59, 62), and both work on a fresh object: a
\* CaseInsensitiveDict built on line 58, and the result of paramstodict,
\* which is dict(params), a comprehension or a new dict (lines 33, 35, 42).
ArgsAfter(request_setting, persistant_setting, setting_type) ==
    <<request_setting, persistant_setting>>

\* ------------------------------------------------------------ clients
\* SafeSession.__init__ (lines 122-140): every argument is stored as given.
\* A session holds no persistent settings; the three fields are kept empty
\* so that both clients are records of one shape.
SafeSession(delay, limit, codes, backoff, maxBackoff, retryExc, excCodes) ==
    [variant |-> "SafeSession",
     retry_delay |-> delay, retry_limit |-> limit, retry_codes |-> codes,
     exp_backoff |-> backoff, max_exp_backoff |-> maxBackoff,
     persistant_params |-> EmptyDict, persistant_headers |-> EmptyDict,
     persistant_auth |-> "None",
     retry_exception |-> retryExc, retry_exception_codes |-> excCodes]

\* SafeRequests.__init__ (lines 495-518): a falsy retry_codes,
\* persistant_params or persistant_headers is replaced by an empty one.
SafeRequests(delay, limit, codes, backoff, maxBackoff, pparams, pheaders, pauth, retryExc, excCodes) ==
    [variant |-> "SafeRequests",
     retry_delay |-> delay, retry_limit |-> limit, retry_codes |-> codes,
     exp_backoff |-> backoff, max_exp_backoff |-> maxBackoff,
     persistant_params |-> IF Truthy(pparams) THEN pparams ELSE EmptyDict,
     persistant_headers |-> IF Truthy(pheaders) THEN pheaders ELSE EmptyDict,
     persistant_auth |-> pauth,
     retry_exception |-> retryExc, retry_exception_codes |-> excCodes]

\* SafeRequests.root = SafeRequests() (line 844): every default.
root ==
    SafeRequests(DEFAULT_DELAY, DEFAULT_LIMIT, DEFAULT_CODES,
                 DEFAULT_EXP_BACKOFF, DEFAULT_MAX_EXP_BACKOFF,
                 EmptyDict, EmptyDict, "None", FALSE, DEFAULT_EXCEPTIONS)

\* --------------------------------------------------- one request call
\* The result of a call: nothing yet, a returned Response (resp is the
\* number of the transport call that produced it), a return of None (the
\* function fell off its end), or a raised exception (context is the
\* exception being handled when it was raised, Python's __context__).
NoResult ==
    [kind |-> "none", status |-> 0, resp |-> 0, elapsed |-> 0,
     error |-> "", context |-> ""]
ReturnResponse(status, resp, elapsed) ==
    [kind |-> "return", status |-> status, resp |-> resp,
     elapsed |-> elapsed, error |-> "", context |-> ""]
ReturnNone ==
    [kind |-> "None", status |-> 0, resp |-> 0, elapsed |-> 0,
     error |-> "", context |-> ""]
Raise(e, ctx) ==
    [kind |-> "raise", status |-> 0, resp |-> 0, elapsed |-> 0,
     error |-> e, context |-> ctx]

\* The keyword arguments of a call that the wrapper reads; "absent" marks a
\* keyword the caller did not pass.
Absent == Obj("absent", <<>>)
Kwargs(params, headers, auth) ==
    [params |-> params, headers |-> headers, auth |-> auth]

\* The frame of one call of request: the locals of the function (count,
\* retry_delay, start, end), the keyword arguments handed to the transport
\* (method, params, headers, auth), the clock (now), and the history of the
\* call: calls (transport calls issued), waits (the arguments of time.sleep,
\* in order), trace (the transport outcomes, in order) and busy (the time
\* spent inside transport calls).
Idle ==
    [pc |-> "idle", method |-> "", params |-> NoneObj, headers |-> NoneObj,
     auth |-> "None", count |-> 0, retry_delay |-> 0, start |-> 0,
     end |-> 0, now |-> 0, calls |-> 0, waits |-> <<>>, trace |-> <<>>,
     busy |-> 0, result |-> NoResult]

Finish(x, res) == [x EXCEPT !.pc = "done", !.result = res]

\* while count >= 0 (lines 271, 675): the loop goes on to a transport call,
\* or the function falls off its end and returns None.
LoopTest(x) ==
    IF x.count >= 0 THEN [x EXCEPT !.pc = "loop"] ELSE Finish(x, ReturnNone)

\* Locals that start one retry short of the limit.
StartLocalsOneShort(c, x, method) ==
    [x EXCEPT !.method = method, !.count = c.retry_limit - 1,
              !.retry_delay = c.retry_delay]

\* Lines 257-258, 653-654: count = self.retry_limit and retry_delay =
\* self.retry_delay.  The loop works on these two locals; no statement of
\* request assigns an attribute of self.
StartLocals(c, x, method) ==
    [x EXCEPT !.method = method, !.count = c.retry_limit,
              !.retry_delay = c.retry_delay]

\* SafeSession.request before its loop (lines 257-270): url_str is
\* augmented on line 259 before anything is assigned to it, so the local is
\* unbound and the statement raises UnboundLocalError.
SessionPrologue(c, x, method, kw) ==
    LET y == StartLocals(c, x, method)
    IN Finish(y, Raise("UnboundLocalError", ""))

\* An auth default in which the persistent auth comes first.
AuthPersistentFirst(kw, c) ==
    IF c.persistant_auth # "None" THEN c.persistant_auth ELSE kw.auth

\* Line 663: kwargs.setdefault('auth', self.persistant_auth).  An auth
\* keyword that was passed stays as passed, None included.
AuthDefault(kw, c) ==
    IF kw.auth = "absent" THEN c.persistant_auth ELSE kw.auth

\* SafeRequests.request before its loop (lines 653-674): the merge of the
\* per-call and persistent params and headers, the default of auth, the
\* start timestamp, and the display URL, which iterates
\* kwargs['params'].items() and so needs the merged params to be a dict.
RequestsPrologue(c, x, method, kw) ==
    LET y == StartLocals(c, x, method)
        pm == mergesettings(IF kw.params = Absent THEN EmptyDict
                            ELSE kw.params,
                            c.persistant_params, "params")
        hm == mergesettings(IF kw.headers = Absent THEN EmptyDict
                            ELSE kw.headers,
                            c.persistant_headers, "headers")
        au == AuthDefault(kw, c)
    IN IF pm.raised # "" THEN Finish(y, Raise(pm.raised, ""))
       ELSE IF hm.raised # "" THEN Finish(y, Raise(hm.raised, ""))
       ELSE LET z == [y EXCEPT !.params = pm.value, !.headers = hm.value,
                               !.auth = au, !.start = y.now]
            IN IF pm.value.type # "dict"
               THEN Finish(z, Raise("AttributeError", ""))
               ELSE LoopTest(z)

\* request(method, url, **kwargs) of either class, up to its first
\* transport call.
BeginRequest(c, x, method, kw) ==
    IF c.variant = "SafeSession" THEN SessionPrologue(c, x, method, kw)
    ELSE RequestsPrologue(c, x, method, kw)

\* time.sleep(retry_delay) (lines 298, 704) raises ValueError for a
\* negative argument and otherwise blocks for that long.
SleepRaises(d) == d < 0

Min(a, b) == IF a < b THEN a ELSE b

\* A delay update that doubles whether or not exp_backoff is set.
NextDelayDoubles(c, d) == Min(d * 2, c.max_exp_backoff)

\* Lines 300, 706: the delay after a retry.
NextDelay(c, d) ==
    IF c.exp_backoff THEN Min(d * 2, c.max_exp_backoff) ELSE d

\* A retry that uses up none of the remaining retries.
ConsumeNothing(count) == count

\* Lines 297, 703: count = count - 1.
Consume(count) == count - 1

\* A retry decision that forgets the status code.
RetryWhileCount(c, x, status) == x.count # 0

\* Lines 294, 700: response.status_code in self.retry_codes and count.
RetryOnStatus(c, x, status) == status \in c.retry_codes /\ x.count # 0

\* An elapsed time that leaves the waits out.
ElapsedWithoutWaits(x) == x.end - x.start - (x.now - x.start - x.busy)

\* Lines 303, 709: response.elapsed = end - start.
Elapsed(x) == x.end - x.start

\* One iteration of the loop whose transport call returns a response
\* (lines 275-279 and 294-307, 680-685 and 700-713).
OnResponse(c, x, status, dur) ==
    LET y == [x EXCEPT !.calls = @ + 1, !.now = @ + dur, !.end = x.now + dur,
                       !.busy = @ + dur,
                       !.trace = Append(@, [kind |-> "response",
                                            status |-> status, error |-> ""])]
    IN IF RetryOnStatus(c, y, status)
       THEN IF SleepRaises(y.retry_delay)
            THEN Finish([y EXCEPT !.count = Consume(@)],
                        Raise("ValueError", ""))
            ELSE LoopTest([y EXCEPT !.count = Consume(@),
                                    !.now = @ + y.retry_delay,
                                    !.waits = Append(@, y.retry_delay),
                                    !.retry_delay = NextDelay(c, @)])
       ELSE Finish(y, ReturnResponse(status, y.calls, Elapsed(y)))

\* The except clause of lines 280 and 686 names retry_exception_codes, which
\* is neither a local of request nor a module-level name (the tuple is held
\* in self.retry_exception_codes): evaluating it raises NameError while the
\* transport's exception is being handled.
ExceptClauseBound == "retry_exception_codes" \in ModuleNames

\* One iteration of the loop whose transport call raises exception e
\* (lines 280-293, 686-699).
OnError(c, x, e, dur) ==
    LET y == [x EXCEPT !.calls = @ + 1, !.now = @ + dur,
                       !.busy = @ + dur,
                       !.trace = Append(@, [kind |-> "error", status |-> 0,
                                            error |-> e])]
    IN IF ~ExceptClauseBound THEN Finish(y, Raise("NameError", e))
       ELSE IF e \notin c.retry_exception_codes THEN Finish(y, Raise(e, ""))
       ELSE IF ~c.retry_exception THEN Finish(y, Raise(e, ""))
       ELSE IF y.count # 0 THEN LoopTest(y)
       ELSE Finish(y, Raise(e, ""))

\* The verb methods of both classes (lines 310-427, 715-841): each forwards
\* to request with a fixed method, head with "options"; get passes its
\* params argument, None by default, as a keyword.
VerbMethod(api) == IF api = "head" THEN "options" ELSE api

VerbKwargs(api, kw) ==
    IF api = "get" /\ kw.params = Absent THEN [kw EXCEPT !.params = NoneObj]
    ELSE kw

\* ------------------------------------------------- the inputs of Spec
Verbs == {"get", "options", "head", "post", "put", "patch", "delete"}
Statuses == {200, 404, 429, 500, 512}
Durations == 1..MaxDur
CodeSets == {{}, {404, 500}, DEFAULT_CODES}

Dict1(k, v) == Obj("dict", <<<<k, Atom(v)>>>>)

\* The retry policies a client is constructed with.  max_exp_backoff is
\* read only under exp_backoff, so it varies only there.
Policies ==
    [delay : 0..MaxDelay, limit : -1..MaxLimit, codes : CodeSets,
     backoff : {TRUE}, maxBackoff : 1..MaxBackoff, retryExc : BOOLEAN]
    \cup
    [delay : 0..MaxDelay, limit : -1..MaxLimit, codes : CodeSets,
     backoff : {FALSE}, maxBackoff : {DEFAULT_MAX_EXP_BACKOFF},
     retryExc : BOOLEAN]

\* Clients that differ in their retry policy and hold no persistent setting.
PolicyClients ==
    {SafeRequests(p.delay, p.limit, p.codes, p.backoff, p.maxBackoff,
                  EmptyDict, EmptyDict, "None", p.retryExc,
                  DEFAULT_EXCEPTIONS) : p \in Policies}
    \cup
    {SafeSession(p.delay, p.limit, p.codes, p.backoff, p.maxBackoff,
                 p.retryExc, DEFAULT_EXCEPTIONS) : p \in Policies}

\* One-shot clients that differ in their persistent settings, under one
\* policy with a single retry.
PersistentParams ==
    {EmptyDict, Dict1("b", "3"), Obj("list", <<<<"b", Atom("3")>>>>),
     Obj("tuple", <<<<"b", Atom("3")>>>>)}
PersistentHeaders == {EmptyDict, Dict1("x-foo", "'2'")}
PersistentAuths == {"None", "'persistent'"}
SettingsClients ==
    {SafeRequests(DEFAULT_DELAY, 1, DEFAULT_CODES, DEFAULT_EXP_BACKOFF,
                  DEFAULT_MAX_EXP_BACKOFF, pp, ph, pa, FALSE,
                  DEFAULT_EXCEPTIONS) :
        pp \in PersistentParams, ph \in PersistentHeaders,
        pa \in PersistentAuths}

\* The calls a caller makes: api is "request" (with its method argument) or
\* a verb method.
\* Among the params are a tuple of pairs and the int 0 (Obj("int", <<>>)),
\* two values of a type paramstodict does not handle, one truthy, one falsy.
CallParams ==
    {Absent, NoneObj, Dict1("a", "1"), Obj("list", <<<<"a", Atom("1")>>>>),
     Obj("str", <<<<"a", "1">>>>), Obj("tuple", <<<<"a", Atom("1")>>>>),
     Obj("int", <<>>)}
CallHeaders == {Absent, Dict1("X-Foo", "'1'")}
CallAuths == {"absent", "None", "'percall'"}
PlainCall == [api |-> "request", method |-> "post",
              kw |-> Kwargs(Absent, Absent, "absent")]
SettingsCalls ==
    [api : {"request"}, method : {"post"},
     kw : [params : CallParams, headers : CallHeaders, auth : CallAuths]]
    \cup
    [api : Verbs, method : {""},
     kw : [params : {Absent, Dict1("a", "1")}, headers : {Absent},
           auth : {"absent"}]]

\* ------------------------------------------------------------- state
VARIABLES
    client,     \* the client object the call is made on
    call,       \* the call the caller makes: [api, method, kw]
    x,          \* the frame of the call of request
    m,          \* one call of mergesettings: its arguments, before and after, and its result
    fcall,      \* the call made through a module-level function
    fx,         \* the frame of the call made through the module-level function
    dx,         \* the frame of the same call made on the default client
    sx,         \* the frame of the same call made on a session of the same policy
    made,       \* the request calls the client finished before the one under way
    th,         \* the frames of two request calls running at once on the client
    norm,       \* one set of params in its three forms, and their normalisations
    rebuilt     \* the client built from what __reduce__ returned

vars == <<client, call, x, m, fcall, fx, dx, sx, made, th, norm, rebuilt>>

\* The variables of the last three scenarios, for the steps that leave
\* them alone.
others == <<th, norm, rebuilt>>

\* No request call under way in either thread.
NoThreads == <<Idle, Idle>>

\* No normalisation made.
NoNorm ==
    [pairs |-> <<>>, done |-> FALSE, fromDict |-> NoneObj,
     fromList |-> NoneObj, fromQuery |-> NoneObj]

\* __reduce__ not called.
NotReduced == [done |-> FALSE, raised |-> "", obj |-> root]

\* No request call finished yet: n counts the finished calls and waits the
\* waits made in them.
NoCalls == [n |-> 0, waits |-> 0]

\* No call of mergesettings under way.
NoMerge ==
    [request_setting |-> NoneObj, persistant_setting |-> NoneObj,
     setting_type |-> "", done |-> FALSE, out |-> Returned(NoneObj),
     request_after |-> NoneObj, persistant_after |-> NoneObj]

Init ==
    /\ \/ client \in PolicyClients /\ call = PlainCall
       \/ client \in SettingsClients /\ call \in SettingsCalls
    /\ x = Idle
    /\ m = NoMerge
    /\ fcall = PlainCall
    /\ fx = Idle
    /\ dx = Idle
    /\ sx = Idle
    /\ made = NoCalls
    /\ th = NoThreads
    /\ norm = NoNorm
    /\ rebuilt = NotReduced

\* client.request(method, url, **kwargs), up to the first transport call.
Request ==
    /\ x.pc = "idle"
    /\ call.api = "request"
    /\ x' = BeginRequest(client, x, call.method, call.kw)
    /\ UNCHANGED <<client, call, m, fcall, fx, dx, sx, made, others>>

\* client.get(...), client.head(...), ...: the verb method and the request
\* call it forwards to, up to the first transport call.
Verb ==
    /\ x.pc = "idle"
    /\ call.api \in Verbs
    /\ x' = BeginRequest(client, x, VerbMethod(call.api),
                         VerbKwargs(call.api, call.kw))
    /\ UNCHANGED <<client, call, m, fcall, fx, dx, sx, made, others>>

\* One iteration of the loop: the transport call returns a response.  (The
\* cap on the calls is never reached: a call issues at most retry_limit + 1
\* transport calls.)
Respond ==
    /\ x.pc = "loop"
    /\ x.calls <= MaxLimit
    /\ \E status \in Statuses, dur \in Durations :
          x' = OnResponse(client, x, status, dur)
    /\ UNCHANGED <<client, call, m, fcall, fx, dx, sx, made, others>>

\* One iteration of the loop: the transport call raises.
Fail ==
    /\ x.pc = "loop"
    /\ x.calls <= MaxLimit
    /\ \E e \in TransportErrors, dur \in Durations :
          x' = OnError(client, x, e, dur)
    /\ UNCHANGED <<client, call, m, fcall, fx, dx, sx, made, others>>

Next == Request \/ Verb \/ Respond \/ Fail

Spec == Init /\ [][Next]_vars

\* The same, with the call running on: a thread that is inside request
\* takes its next step, and time.sleep and the transport call return.
SpecLive == Init /\ [][Next]_vars /\ WF_vars(Next)

\* ------------------------------------------- mergesettings on its own
SeqsUpTo(S, n) == UNION {[1..k -> S] : k \in 0..n}
DistinctKeys(s) == \A i, j \in DOMAIN s : i # j => s[i][1] # s[j][1]
DictsOver(pairs) ==
    {Obj("dict", s) : s \in {t \in SeqsUpTo(pairs, MaxItems) : DistinctKeys(t)}}

\* The raw name=value pairs of the query strings.
QueryPairs == ({"a"} \X {"1", "%32", ""}) \cup ({"b"} \X {"3"})

\* The objects passed as params: a dict, a list of pairs, a str or bytes
\* query string, a tuple of pairs (an unsupported type) or None.
ParamObjs(pairs) ==
    DictsOver(pairs)
    \cup {Obj("list", s) : s \in SeqsUpTo(pairs, MaxItems)}
    \cup {Obj("str", s) : s \in SeqsUpTo(QueryPairs, MaxItems)}
    \cup {Obj("bytes", s) : s \in SeqsUpTo(QueryPairs, 1)}
    \cup {Obj("tuple", s) : s \in SeqsUpTo(pairs, 1)}
    \cup {NoneObj}

RequestParamObjs == ParamObjs({"a", "b"} \X {Atom("1"), None})
PersistentParamObjs == ParamObjs({"a", "b"} \X {Atom("2"), Atom("3"), None})
RequestHeaderObjs ==
    DictsOver({"X-Foo", "x-foo", "X-Bar"} \X {Atom("'1'"), None})
    \cup {NoneObj}
PersistentHeaderObjs ==
    DictsOver({"x-foo", "X-FOO", "X-Bar"}
              \X {Atom("'2'"), Atom("'3'"), None})
    \cup {NoneObj}
RequestAuthObjs == {NoneObj, Obj("tuple", <<<<"user", Atom("'pw'")>>>>)}
PersistentAuthObjs == {NoneObj, Obj("tuple", <<<<"root", Atom("'pw0'")>>>>)}

MergeCall(r, p, t) ==
    [request_setting |-> r, persistant_setting |-> p, setting_type |-> t,
     done |-> FALSE, out |-> Returned(NoneObj),
     request_after |-> r, persistant_after |-> p]

InitMerge ==
    /\ client = root
    /\ call = PlainCall
    /\ x = Idle
    /\ fcall = PlainCall
    /\ fx = Idle
    /\ dx = Idle
    /\ sx = Idle
    /\ made = NoCalls
    /\ th = NoThreads
    /\ norm = NoNorm
    /\ rebuilt = NotReduced
    /\ \/ \E r \in RequestParamObjs, p \in PersistentParamObjs :
             m = MergeCall(r, p, "params")
       \/ \E r \in RequestHeaderObjs, p \in PersistentHeaderObjs :
             m = MergeCall(r, p, "headers")
       \/ \E r \in RequestAuthObjs, p \in PersistentAuthObjs :
             m = MergeCall(r, p, "auth")

\* mergesettings(request_setting, persistant_setting, setting_type).
Merge ==
    /\ ~m.done
    /\ m' = [m EXCEPT !.done = TRUE,
                      !.out = mergesettings(m.request_setting,
                                            m.persistant_setting,
                                            m.setting_type),
                      !.request_after = ArgsAfter(m.request_setting,
                                                  m.persistant_setting,
                                                  m.setting_type)[1],
                      !.persistant_after = ArgsAfter(m.request_setting,
                                                     m.persistant_setting,
                                                     m.setting_type)[2]]
    /\ UNCHANGED <<client, call, x, fcall, fx, dx, sx, made, others>>

NextMerge == Merge

SpecMerge == InitMerge /\ [][NextMerge]_vars

\* ------------------------------------------ the module-level functions
\* request (line 910) returns root.request(...): root is looked up as a
\* module-level name, and the default client is bound only as the class
\* attribute SafeRequests.root (line 844).
RootBound == "root" \in ModuleNames

\* The module-level functions (lines 846-1041), up to the first transport
\* call: get, options, head, post, put, patch and delete call request with
\* their own verb (get with its params argument, None by default), and
\* request calls root.request.
FreeFunction(fr, api, method, kw) ==
    IF ~RootBound THEN Finish(fr, Raise("NameError", ""))
    ELSE BeginRequest(root, fr, IF api = "request" THEN method ELSE api,
                      VerbKwargs(api, kw))

\* The same call made on the default client itself: root.request(method,
\* ...) or root.get(...), root.head(...), ...
DirectCall(fr, api, method, kw) ==
    IF api = "request" THEN BeginRequest(root, fr, method, kw)
    ELSE BeginRequest(root, fr, VerbMethod(api), VerbKwargs(api, kw))

\* One iteration of the loop of a frame that is in its loop, for transport
\* outcome o; a frame that has ended is left alone.
Step(c, fr, o, dur) ==
    IF fr.pc # "loop" THEN fr
    ELSE IF o.kind = "response" THEN OnResponse(c, fr, o.status, dur)
    ELSE OnError(c, fr, o.error, dur)

FreeCalls ==
    [api : {"request"}, method : {"get", "post"},
     kw : [params : {Absent, Dict1("a", "1")}, headers : {Absent},
           auth : {"absent"}]]
    \cup
    [api : Verbs, method : {""},
     kw : [params : {Absent, Dict1("a", "1")}, headers : {Absent},
           auth : {"absent"}]]

FreeOutcomes ==
    {[kind |-> "response", status |-> 200, error |-> ""],
     [kind |-> "response", status |-> 500, error |-> ""],
     [kind |-> "error", status |-> 0, error |-> "Timeout"]}

InitFree ==
    /\ client = root
    /\ call = PlainCall
    /\ x = Idle
    /\ m = NoMerge
    /\ fcall \in FreeCalls
    /\ fx = Idle
    /\ dx = Idle
    /\ sx = Idle
    /\ made = NoCalls
    /\ th = NoThreads
    /\ norm = NoNorm
    /\ rebuilt = NotReduced

\* saferequests.request(...), saferequests.get(...), ...
CallFree ==
    /\ fx.pc = "idle"
    /\ fx' = FreeFunction(fx, fcall.api, fcall.method, fcall.kw)
    /\ UNCHANGED <<client, call, x, m, fcall, dx, sx, made, others>>

\* The same call on the default client.
CallDirect ==
    /\ dx.pc = "idle"
    /\ dx' = DirectCall(dx, fcall.api, fcall.method, fcall.kw)
    /\ UNCHANGED <<client, call, x, m, fcall, fx, sx, made, others>>

\* The transport gives both calls the same outcome for their next
\* transport call.
Transport ==
    /\ fx.pc # "idle" /\ dx.pc # "idle"
    /\ fx.pc = "loop" \/ dx.pc = "loop"
    /\ \E o \in FreeOutcomes :
          /\ fx' = Step(root, fx, o, 1)
          /\ dx' = Step(root, dx, o, 1)
    /\ UNCHANGED <<client, call, x, m, fcall, sx, made, others>>

NextFree == CallFree \/ CallDirect \/ Transport

SpecFree == InitFree /\ [][NextFree]_vars

\* ------------------------------------------------------------ claims
RECURSIVE SumSeq(_)
SumSeq(s) == IF s = <<>> THEN 0 ELSE Head(s) + SumSeq(Tail(s))

RECURSIVE Pow2(_)
Pow2(n) == IF n <= 0 THEN 1 ELSE 2 * Pow2(n - 1)

\* A request call that passes no keyword argument on a client that holds no
\* persistent params: the merge of the settings is a no-op.
PlainRequest ==
    /\ call = PlainCall
    /\ client.persistant_params = EmptyDict

AllRetryStatus ==
    \A i \in DOMAIN x.trace :
        /\ x.trace[i].kind = "response"
        /\ x.trace[i].status \in client.retry_codes

AllRetryableErrors ==
    \A i \in DOMAIN x.trace :
        /\ x.trace[i].kind = "error"
        /\ x.trace[i].error \in client.retry_exception_codes

\* C1: for every retry limit N >= 0 and either client variant, a request
\* call whose every transport call returns a response with a status code in
\* the retry codes ends having issued exactly N + 1 transport calls and
\* returns the last response, with that status code, as a normal result.
C1_ExactlyLimitPlusOneCalls ==
    (/\ x.pc = "done"
     /\ PlainRequest
     /\ client.retry_limit >= 0
     /\ AllRetryStatus)
    => /\ x.calls = client.retry_limit + 1
       /\ x.result.kind = "return"
       /\ x.result.resp = x.calls
       /\ x.result.status = x.trace[x.calls].status

\* C2: with retry_exception enabled, a request call with retry limit N that
\* reaches the transport and whose every transport call fails with a
\* retryable transport error ends having made exactly N + 1 attempts and
\* raises the error of the last attempt.
C2_RetriesTransportErrors ==
    (/\ x.pc = "done"
     /\ PlainRequest
     /\ client.retry_exception
     /\ client.retry_limit >= 0
     /\ x.calls >= 1
     /\ AllRetryableErrors)
    => /\ x.calls = client.retry_limit + 1
       /\ x.result.kind = "raise"
       /\ x.result.error = x.trace[x.calls].error

\* C3: with retry_exception false, a transport error ends the call at once:
\* the call raises that very error, and no transport call and no wait
\* follow it.
C3_TransportErrorPropagates ==
    ~client.retry_exception =>
        \A i \in DOMAIN x.trace :
            x.trace[i].kind = "error" =>
                /\ i = Len(x.trace)
                /\ x.calls = i
                /\ Len(x.waits) = i - 1
                /\ x.pc = "done"
                /\ x.result.kind = "raise"
                /\ x.result.error = x.trace[i].error

\* C4: with exponential backoff, the wait before the k-th retry of a call
\* is min(delay * 2^(k-1), max_exp_backoff).
C4_BackoffClosedForm ==
    client.exp_backoff =>
        \A k \in DOMAIN x.waits :
            x.waits[k] = Min(client.retry_delay * Pow2(k - 1),
                             client.max_exp_backoff)

\* C5: a response whose status code is not in the retry codes is returned
\* as a normal result by the attempt that received it: it is the last
\* transport outcome of the call, no wait follows it, and the call returns
\* it, whatever the number of retries remaining.
C5_NonRetryStatusReturned ==
    \A i \in DOMAIN x.trace :
        (x.trace[i].kind = "response"
         /\ x.trace[i].status \notin client.retry_codes)
        => /\ i = Len(x.trace)
           /\ x.calls = i
           /\ Len(x.waits) = i - 1
           /\ x.pc = "done"
           /\ x.result.kind = "return"
           /\ x.result.resp = i
           /\ x.result.status = x.trace[i].status

\* A call returned a non-retry status received after two retries, with
\* retries still remaining.
C5_Witness ==
    /\ x.pc = "done"
    /\ x.result.kind = "return"
    /\ x.result.status \notin client.retry_codes
    /\ x.calls = 3
    /\ x.count > 0

\* C6: a request call that ends returns a Response produced by the
\* transport or raises a transport failure; it never ends with None.
C6_ResponseOrTransportFailure ==
    (x.pc = "done" /\ PlainRequest) =>
        \/ /\ x.result.kind = "return"
           /\ x.result.resp \in DOMAIN x.trace
           /\ x.trace[x.result.resp].kind = "response"
        \/ /\ x.result.kind = "raise"
           /\ x.result.error \in TransportErrors

\* C7: the elapsed time stamped on the returned Response is the time from
\* the start of the first attempt to the completion of the final one: the
\* time spent in every transport call of the call plus every wait between
\* them.
C7_ElapsedIsWholeLoop ==
    (x.pc = "done" /\ x.result.kind = "return") =>
        x.result.elapsed = x.busy + SumSeq(x.waits)

\* A call returned after two retries that each waited.
C7_Witness ==
    /\ x.pc = "done"
    /\ x.result.kind = "return"
    /\ Len(x.waits) = 2
    /\ x.waits[1] > 0
    /\ x.result.elapsed > x.busy

\* The forms of params that paramstodict accepts.
AcceptedParams(o) == o.type \in {"dict", "list", "str", "bytes"}

\* A finished params merge of two non-empty sides of accepted forms.
ParamsMerged ==
    /\ m.done
    /\ m.setting_type = "params"
    /\ Truthy(m.request_setting) /\ AcceptedParams(m.request_setting)
    /\ Truthy(m.persistant_setting) /\ AcceptedParams(m.persistant_setting)

\* C8 as stated: merging params with both sides non-empty yields the key
\* union; a key of the per-call side has the per-call value and a key of the
\* persistent side alone keeps the persistent value.
C8_ParamsKeyUnion ==
    ParamsMerged =>
        LET r == paramstodict(m.request_setting).items
            p == paramstodict(m.persistant_setting).items
            o == m.out.value.items
        IN /\ m.out.raised = ""
           /\ m.out.value.type = "dict"
           /\ Keys(o) = Keys(r) \cup Keys(p)
           /\ \A k \in Keys(r) : Lookup(o, k) = Lookup(r, k)
           /\ \A k \in Keys(p) \ Keys(r) : Lookup(o, k) = Lookup(p, k)

\* C8 as amended: merging params with both sides non-empty yields the keys
\* of the union whose resolved value (the per-call value when the per-call
\* side has the key, the persistent value otherwise) is not None, each with
\* its resolved value; a key whose resolved value is None is dropped.
C8_ParamsUnionLessNone ==
    ParamsMerged =>
        LET r == paramstodict(m.request_setting).items
            p == paramstodict(m.persistant_setting).items
            o == m.out.value.items
            resolved(k) == IF HasKey(r, k) THEN Lookup(r, k) ELSE Lookup(p, k)
        IN /\ m.out.raised = ""
           /\ m.out.value.type = "dict"
           /\ Keys(o) = {k \in Keys(r) \cup Keys(p) : resolved(k) # None}
           /\ \A k \in Keys(o) : Lookup(o, k) = resolved(k)

\* Per-call {a: 1} merged with persistent {a: 2, b: 3} gave {a: 1, b: 3}.
C8_Witness ==
    /\ m.done
    /\ m.setting_type = "params"
    /\ m.request_setting = Obj("dict", <<<<"a", Atom("1")>>>>)
    /\ m.persistant_setting =
          Obj("dict", <<<<"a", Atom("2")>>, <<"b", Atom("3")>>>>)
    /\ m.out = Returned(Obj("dict", <<<<"a", Atom("1")>>, <<"b", Atom("3")>>>>))

LowerKeys(d) == {Lower(d[i][1]) : i \in DOMAIN d}
EntriesWith(d, low) == {i \in DOMAIN d : Lower(d[i][1]) = low}
LastWith(d, low) ==
    d[CHOOSE i \in EntriesWith(d, low) : \A j \in EntriesWith(d, low) : j <= i]

\* A finished headers merge.
HeadersMerged == m.done /\ m.setting_type = "headers"

\* C9 as stated: merging headers yields the union of the keys compared
\* case-insensitively; a key of both sides has a single entry, with the
\* spelling and the value of a per-call entry.
C9_HeadersCaseInsensitiveUnion ==
    HeadersMerged =>
        LET r == m.request_setting.items
            p == m.persistant_setting.items
            o == m.out.value.items
        IN /\ m.out.raised = ""
           /\ LowerKeys(o) = LowerKeys(r) \cup LowerKeys(p)
           /\ \A low \in LowerKeys(r) \cap LowerKeys(p) :
                 /\ Cardinality(EntriesWith(o, low)) = 1
                 /\ \E i \in EntriesWith(r, low) : LastWith(o, low) = r[i]

\* C9 as amended: with both sides non-empty, merging headers yields the
\* keys of the case-insensitive union whose merged value is not None, one
\* entry each: the last per-call entry of that key (its spelling and value)
\* when the per-call side has the key, the last persistent entry otherwise.
\* With one side empty the other side is returned unchanged.
C9_HeadersUnionLessNone ==
    HeadersMerged =>
        LET r == m.request_setting.items
            p == m.persistant_setting.items
            o == m.out.value.items
            merged(low) == IF low \in LowerKeys(r) THEN LastWith(r, low)
                           ELSE LastWith(p, low)
        IN /\ m.out.raised = ""
           /\ ~Truthy(m.persistant_setting)
                 => m.out.value = m.request_setting
           /\ (Truthy(m.persistant_setting) /\ ~Truthy(m.request_setting))
                 => m.out.value = m.persistant_setting
           /\ (Truthy(m.persistant_setting) /\ Truthy(m.request_setting))
                 => /\ LowerKeys(o) =
                         {low \in LowerKeys(r) \cup LowerKeys(p) :
                             merged(low)[2] # None}
                    /\ \A low \in LowerKeys(o) :
                          /\ Cardinality(EntriesWith(o, low)) = 1
                          /\ LastWith(o, low) = merged(low)

\* Per-call {"X-Foo": "1"} merged with persistent {"x-foo": "2",
\* "X-Bar": "3"} gave {"X-Foo": "1", "X-Bar": "3"}.
C9_Witness ==
    /\ m.done
    /\ m.setting_type = "headers"
    /\ m.request_setting = Obj("dict", <<<<"X-Foo", Atom("'1'")>>>>)
    /\ m.persistant_setting =
          Obj("dict", <<<<"x-foo", Atom("'2'")>>, <<"X-Bar", Atom("'3'")>>>>)
    /\ m.out = Returned(Obj("dict", <<<<"X-Foo", Atom("'1'")>>,
                                      <<"X-Bar", Atom("'3'")>>>>))

\* C10: a module-level function gives the same transport calls, waits and
\* terminal outcome as the same verb called on the default client, for the
\* same transport outcomes.
C10_FreeFunctionIsDefaultClient ==
    (fx.pc = "done" /\ dx.pc = "done") =>
        /\ fx.calls = dx.calls
        /\ fx.waits = dx.waits
        /\ fx.result = dx.result

\* C11: a verb method (get, head, options, post, put, patch, delete) issues
\* its transport calls with its own verb as the method; head issues "head".
C11_VerbIssuesOwnMethod ==
    (call.api \in Verbs /\ x.calls >= 1) => x.method = call.api

\* ------------------------------- a session and a one-shot client, paired
\* SafeSession(...) constructed with the retry policy of one-shot client c.
SessionOf(c) ==
    SafeSession(c.retry_delay, c.retry_limit, c.retry_codes, c.exp_backoff,
                c.max_exp_backoff, c.retry_exception, c.retry_exception_codes)

\* What one transport call can do: return a response or raise.
PairOutcomes ==
    {[kind |-> "response", status |-> s, error |-> ""] : s \in Statuses}
    \cup {[kind |-> "error", status |-> 0, error |-> e] : e \in TransportErrors}

InitPair ==
    /\ client \in {c \in PolicyClients : c.variant = "SafeRequests"}
    /\ call = PlainCall
    /\ x = Idle
    /\ m = NoMerge
    /\ fcall = PlainCall
    /\ fx = Idle
    /\ dx = Idle
    /\ sx = Idle
    /\ made = NoCalls
    /\ th = NoThreads
    /\ norm = NoNorm
    /\ rebuilt = NotReduced

\* session.request(method, url, **kwargs) on the session of the same
\* policy, up to the first transport call.
CallSession ==
    /\ sx.pc = "idle"
    /\ sx' = BeginRequest(SessionOf(client), sx, call.method, call.kw)
    /\ UNCHANGED <<client, call, x, m, fcall, fx, dx, made, others>>

\* The transport gives the one-shot call and the session call the same
\* outcome for their next transport call.
TransportPair ==
    /\ x.pc # "idle" /\ sx.pc # "idle"
    /\ x.pc = "loop" \/ sx.pc = "loop"
    /\ \E o \in PairOutcomes, dur \in Durations :
          /\ x' = Step(client, x, o, dur)
          /\ sx' = Step(SessionOf(client), sx, o, dur)
    /\ UNCHANGED <<client, call, m, fcall, fx, dx, made, others>>

NextPair == Request \/ CallSession \/ TransportPair

SpecPair == InitPair /\ [][NextPair]_vars

\* C12: a session and a one-shot client constructed with the same retry
\* policy and given the same transport outcomes end one request call with
\* the same number of transport calls, the same waits and the same terminal
\* outcome.
C12_SessionMatchesOneShot ==
    (x.pc = "done" /\ sx.pc = "done") =>
        /\ x.calls = sx.calls
        /\ x.waits = sx.waits
        /\ x.result = sx.result

\* The keyword arguments that reach request for the call under way.
CallKw == IF call.api \in Verbs THEN VerbKwargs(call.api, call.kw) ELSE call.kw

\* The params merge of the call under way, as request performs it.
CallParamsMerge ==
    mergesettings(IF CallKw.params = Absent THEN EmptyDict ELSE CallKw.params,
                  client.persistant_params, "params")

\* C13: the only errors a request call raises are a transport error (the
\* transport's own exception) and the error the settings merger raises for
\* a params value of an unsupported form.
C13_OnlyTransportOrFormatErrors ==
    x.result.kind = "raise" =>
        \/ x.result.error \in TransportErrors
        \/ /\ client.variant = "SafeRequests"
           /\ CallParamsMerge.raised # ""
           /\ x.result.error = CallParamsMerge.raised
           /\ x.calls = 0

\* C14: a transport error whose class is not among the retryable classes
\* ends the call at once, also with retry_exception true and retries left:
\* the call raises that very error and issues no further transport call.
C14_NonRetryableErrorPropagates ==
    \A i \in DOMAIN x.trace :
        (x.trace[i].kind = "error"
         /\ x.trace[i].error \notin client.retry_exception_codes)
        => /\ i = Len(x.trace)
           /\ x.calls = i
           /\ x.pc = "done"
           /\ x.result.kind = "raise"
           /\ x.result.error = x.trace[i].error

\* A params value of a type paramstodict does not handle (None and an
\* omitted keyword are no value).
Unsupported(o) ==
    o.type \notin {"dict", "list", "str", "bytes", "NoneType", "absent"}

\* The one-shot call under way failed before any transport call.
FailedBeforeTransport ==
    /\ x.pc = "done"
    /\ x.result.kind = "raise"
    /\ x.calls = 0

NoNoneValue(d) == \A i \in DOMAIN d : d[i][2] # None

\* C17 as stated: for all per-call and persistent params, one side empty
\* included, the merged params mapping has no entry whose value is None.
C17_MergedParamsHaveNoNone ==
    (/\ m.done
     /\ m.setting_type = "params"
     /\ m.out.raised = ""
     /\ m.out.value.type = "dict")
    => NoNoneValue(m.out.value.items)

\* C17 as amended: with both sides non-empty the merged params mapping has
\* no entry whose value is None, and a per-call None for a key removes that
\* key, the persistent value with it; with one side empty the other side is
\* returned as it is, entries with a None value included.
C17_NoNoneWhenBothNonEmpty ==
    (m.done /\ m.setting_type = "params") =>
        /\ ParamsMerged =>
              /\ m.out.raised = ""
              /\ NoNoneValue(m.out.value.items)
              /\ \A k \in Keys(paramstodict(m.request_setting).items) :
                    Lookup(paramstodict(m.request_setting).items, k) = None
                    => ~HasKey(m.out.value.items, k)
        /\ ~Truthy(m.persistant_setting)
              => m.out = Returned(m.request_setting)
        /\ (Truthy(m.persistant_setting) /\ ~Truthy(m.request_setting))
              => m.out = Returned(m.persistant_setting)

\* Per-call {a: None} merged with persistent {a: 2, b: 3} gave {b: 3}.
C17_Witness ==
    /\ m.done
    /\ m.setting_type = "params"
    /\ m.request_setting = Obj("dict", <<<<"a", None>>>>)
    /\ m.persistant_setting =
          Obj("dict", <<<<"a", Atom("2")>>, <<"b", Atom("3")>>>>)
    /\ m.out = Returned(Obj("dict", <<<<"b", Atom("3")>>>>))

\* ------------------------------------------ the default retry policy
\* Status codes on both sides of each edge of the default retry codes.
BoundaryStatuses == {200, 428, 429, 430, 499, 500, 511, 512}

InitDefault ==
    /\ client = root
    /\ call = PlainCall
    /\ x = Idle
    /\ m = NoMerge
    /\ fcall = PlainCall
    /\ fx = Idle
    /\ dx = Idle
    /\ sx = Idle
    /\ made = NoCalls
    /\ th = NoThreads
    /\ norm = NoNorm
    /\ rebuilt = NotReduced

\* One iteration of the loop: the transport call returns a response with a
\* status code from either side of an edge of the default retry codes.
RespondBoundary ==
    /\ x.pc = "loop"
    /\ \E status \in BoundaryStatuses : x' = OnResponse(client, x, status, 1)
    /\ UNCHANGED <<client, call, m, fcall, fx, dx, sx, made, others>>

NextDefault == Request \/ RespondBoundary

SpecDefault == InitDefault /\ [][NextDefault]_vars

SeqClients ==
    {c \in PolicyClients : c.retry_codes = {404, 500} /\ ~c.retry_exception}
    \cup SettingsClients

InitSeq ==
    /\ client \in SeqClients
    /\ call = PlainCall
    /\ x = Idle
    /\ m = NoMerge
    /\ fcall = PlainCall
    /\ fx = Idle
    /\ dx = Idle
    /\ sx = Idle
    /\ made = NoCalls
    /\ th = NoThreads
    /\ norm = NoNorm
    /\ rebuilt = NotReduced

\* The call has ended and the caller makes the next one on the same client:
\* the locals of the ended call are gone.
Again ==
    /\ x.pc = "done"
    /\ made.n + 1 < MaxCalls
    /\ made' = [n |-> made.n + 1, waits |-> made.waits + Len(x.waits)]
    /\ x' = Idle
    /\ UNCHANGED <<client, call, m, fcall, fx, dx, sx, others>>

NextSeq == Request \/ Respond \/ Fail \/ Again

SpecSeq == InitSeq /\ [][NextSeq]_vars

\* C19: no step of any request call changes a policy field or a persistent
\* setting of the client, and every request call, the ones after calls that
\* retried and doubled their delay too, enters its loop with count equal to
\* the retry limit and the delay equal to the base delay.
C19_PolicyFixedAtConstruction ==
    [][/\ client' = client
       /\ (x'.pc = "loop" /\ x'.calls = 0)
             => /\ x'.count = client.retry_limit
                /\ x'.retry_delay = client.retry_delay]_vars

\* A second call on a client with exponential backoff, made after a call
\* that retried twice, is about to issue its first transport call.
C19_Witness ==
    /\ made.n = 1
    /\ made.waits = 2
    /\ client.exp_backoff
    /\ client.retry_delay = 1
    /\ client.max_exp_backoff >= 2
    /\ x.pc = "loop"
    /\ x.calls = 0
    /\ x.count = client.retry_limit
    /\ x.retry_delay = 1

\* The delay current at the k-th wait of a call on client c.
RECURSIVE DelayAt(_, _)
DelayAt(c, k) ==
    IF k <= 1 THEN c.retry_delay ELSE NextDelay(c, DelayAt(c, k - 1))

\* C20: every retry waits the current delay before the next attempt.
\* Between two consecutive transport calls of a call there is exactly one
\* wait, of the delay current at that point, and a transport error that is
\* retried (retry_exception set, a retryable class, retries left) is, like a
\* retry-eligible status code, followed by such a wait and a next attempt.
C20_EveryRetryWaitsCurrentDelay ==
    /\ x.pc = "loop" => Len(x.waits) = x.calls
    /\ (x.pc = "done" /\ x.calls >= 1) => Len(x.waits) = x.calls - 1
    /\ \A k \in DOMAIN x.waits : x.waits[k] = DelayAt(client, k)
    /\ ~(/\ x.pc = "done"
         /\ x.trace # <<>>
         /\ x.trace[Len(x.trace)].kind = "error"
         /\ client.retry_exception
         /\ x.trace[Len(x.trace)].error \in client.retry_exception_codes
         /\ x.count > 0)

\* The call under way ended on a transport error that the policy retries:
\* retry_exception is set, the class is retryable and retries are left.
EndedOnRetriedError ==
    /\ x.pc = "done"
    /\ x.trace # <<>>
    /\ x.trace[Len(x.trace)].kind = "error"
    /\ client.retry_exception
    /\ x.trace[Len(x.trace)].error \in client.retry_exception_codes
    /\ x.count > 0

\* C21: every retry consumes one of the remaining attempts, whatever
\* triggered it.  With a retry limit N >= 0 the counter of remaining retries
\* stays within 0..N, it is N less the retries made so far, a call issues at
\* most N + 1 transport calls, and a retried transport error is a retry like
\* any other: the call goes on to a next attempt.
C21_EveryRetryConsumesAnAttempt ==
    client.retry_limit >= 0 =>
        /\ x.pc # "idle" => x.count \in 0..client.retry_limit
        /\ x.calls <= client.retry_limit + 1
        /\ x.pc = "loop" => x.count = client.retry_limit - x.calls
        /\ ~EndedOnRetriedError

\* C22: every request call terminates: whatever the transport answers,
\* response after response or error after error, the call eventually
\* returns or raises.
C22_EveryCallTerminates == <>(x.pc = "done")

\* A call gave up: it used every retry of the largest limit and returned
\* the last response, a retry-eligible one.
C22_Witness ==
    /\ x.pc = "done"
    /\ client.retry_limit = MaxLimit
    /\ x.calls = MaxLimit + 1
    /\ x.count = 0
    /\ x.result.kind = "return"
    /\ x.result.status \in client.retry_codes

\* C23: with exponential backoff disabled every wait of a request call is
\* the base delay of the client, and the current delay of the call stays the
\* base delay however many retries were made.
C23_ConstantDelayWithoutBackoff ==
    (~client.exp_backoff /\ x.pc # "idle") =>
        /\ \A k \in DOMAIN x.waits : x.waits[k] = client.retry_delay
        /\ x.retry_delay = client.retry_delay

\* A call without backoff and with base delay 2 made three retries, each
\* after a wait of 2.
C23_Witness ==
    /\ ~client.exp_backoff
    /\ client.retry_delay = 2
    /\ x.waits = <<2, 2, 2>>
    /\ x.retry_delay = 2

\* C24: with exponential backoff enabled, for every policy a client can be
\* constructed with, no wait of a call exceeds max_exp_backoff and the waits
\* of a call never decrease.
C24_WaitsCappedAndNonDecreasing ==
    client.exp_backoff =>
        \A k \in DOMAIN x.waits :
            /\ x.waits[k] <= client.max_exp_backoff
            /\ k > 1 => x.waits[k - 1] <= x.waits[k]

\* C25: the policy of every constructed client has retry_limit >= 0,
\* retry_delay > 0 and max_exp_backoff >= retry_delay.
C25_ConstructedPolicyIsValid ==
    /\ client.retry_limit >= 0
    /\ client.retry_delay > 0
    /\ client.max_exp_backoff >= client.retry_delay

\* ------------------------------ two request calls at once on one client
\* One-shot clients of every delay, limit and backoff setting.
ConcClients ==
    {c \in PolicyClients :
        c.variant = "SafeRequests" /\ c.retry_codes = {404, 500}}

ConcOutcomes ==
    {[kind |-> "response", status |-> 200, error |-> ""],
     [kind |-> "response", status |-> 500, error |-> ""],
     [kind |-> "error", status |-> 0, error |-> "Timeout"]}

\* Two threads whose calls keep count and retry_delay in one shared place:
\* a step of one thread overwrites them for the other.
ThreadStepShared(c, frames, i, o) ==
    LET new == Step(c, frames[i], o, 1)
    IN [j \in DOMAIN frames |->
          IF j = i THEN new
          ELSE IF frames[j].pc = "loop"
               THEN [frames[j] EXCEPT !.count = new.count,
                                      !.retry_delay = new.retry_delay]
               ELSE frames[j]]

\* One iteration of the loop in thread i.  count, retry_delay, start, end
\* and kwargs are locals of the call of request (lines 653-664), and the
\* iteration reads the client and writes nothing but these locals.
ThreadStep(c, frames, i, o) ==
    [frames EXCEPT ![i] = Step(c, frames[i], o, 1)]

\* The call made alone on client c, given the transport outcomes tr.
RECURSIVE Replay(_, _, _)
Replay(c, fr, tr) ==
    IF tr = <<>> THEN fr ELSE Replay(c, Step(c, fr, Head(tr), 1), Tail(tr))

RunAlone(c, cl, tr) == Replay(c, BeginRequest(c, Idle, cl.method, cl.kw), tr)

InitConc ==
    /\ client \in ConcClients
    /\ call = PlainCall
    /\ x = Idle
    /\ m = NoMerge
    /\ fcall = PlainCall
    /\ fx = Idle
    /\ dx = Idle
    /\ sx = Idle
    /\ made = NoCalls
    /\ th = NoThreads
    /\ norm = NoNorm
    /\ rebuilt = NotReduced

\* A thread calls client.request(method, url, **kwargs).
ThreadRequest ==
    /\ \E i \in DOMAIN th :
          /\ th[i].pc = "idle"
          /\ th' = [th EXCEPT ![i] = BeginRequest(client, th[i], call.method,
                                                  call.kw)]
    /\ UNCHANGED <<client, call, x, m, fcall, fx, dx, sx, made, norm, rebuilt>>

\* A thread that is in its loop makes its next transport call.
ThreadTransport ==
    /\ \E i \in DOMAIN th, o \in ConcOutcomes :
          /\ th[i].pc = "loop"
          /\ th' = ThreadStep(client, th, i, o)
    /\ UNCHANGED <<client, call, x, m, fcall, fx, dx, sx, made, norm, rebuilt>>

NextConc == ThreadRequest \/ ThreadTransport

SpecConc == InitConc /\ [][NextConc]_vars

NormPairs == {"a", "b"} \X {"1", "2", "%32"}

\* The str object a raw value denotes.
StrOf(raw) == "'" \o Unquote(raw) \o "'"

\* The three forms of one sequence of pairs: the query string k=v&k=v, the
\* list of (key, value) tuples, and the dict, which can hold a key once and
\* so holds the list of the values of a key that comes more than once.
QueryForm(s) == Obj("str", s)
ListForm(s) == Obj("list", [i \in DOMAIN s |-> <<s[i][1], Atom(StrOf(s[i][2]))>>])
ValuesOf(s, k) ==
    LET own == SelectSeq(s, LAMBDA p : p[1] = k)
    IN [i \in DOMAIN own |-> StrOf(own[i][2])]
EntryOf(s, k) ==
    IF ValuesOf(s, k) = <<>> THEN <<>>
    ELSE IF Len(ValuesOf(s, k)) = 1 THEN <<<<k, Atom(ValuesOf(s, k)[1])>>>>
    ELSE <<<<k, ListOf(ValuesOf(s, k))>>>>
DictForm(s) == Obj("dict", EntryOf(s, "a") \o EntryOf(s, "b"))

InitNorm ==
    /\ client = root
    /\ call = PlainCall
    /\ x = Idle
    /\ m = NoMerge
    /\ fcall = PlainCall
    /\ fx = Idle
    /\ dx = Idle
    /\ sx = Idle
    /\ made = NoCalls
    /\ th = NoThreads
    /\ rebuilt = NotReduced
    /\ \E s \in SeqsUpTo(NormPairs, MaxPairs) :
          s # <<>> /\ norm = [NoNorm EXCEPT !.pairs = s]

\* paramstodict on each of the three forms of the pairs.
Normalize ==
    /\ ~norm.done
    /\ norm' = [norm EXCEPT !.done = TRUE,
                            !.fromDict = paramstodict(DictForm(norm.pairs)),
                            !.fromList = paramstodict(ListForm(norm.pairs)),
                            !.fromQuery = paramstodict(QueryForm(norm.pairs))]
    /\ UNCHANGED <<client, call, x, m, fcall, fx, dx, sx, made, th, rebuilt>>

NextNorm == Normalize

SpecNorm == InitNorm /\ [][NextNorm]_vars

\* The entries of a dict, whatever their order.
Entries(d) == {d[i] : i \in DOMAIN d}

\* Every pair of s is in dict d: the value of its key is its value or a
\* list that holds it.
Retains(d, s) ==
    \A i \in DOMAIN s :
        /\ HasKey(d, s[i][1])
        /\ LET v == Lookup(d, s[i][1])
           IN \E j \in DOMAIN v.v : v.v[j] = StrOf(s[i][2])

\* C28: params normalisation does not depend on the input form: a dict, a
\* list of pairs and a query string that denote the same key/value pairs
\* normalise to the same dict, and every value of a repeated key is in it.
C28_NormalisationIgnoresForm ==
    norm.done =>
        /\ norm.fromList.type = "dict"
        /\ norm.fromQuery.type = "dict"
        /\ norm.fromDict.type = "dict"
        /\ Entries(norm.fromList.items) = Entries(norm.fromQuery.items)
        /\ Entries(norm.fromList.items) = Entries(norm.fromDict.items)
        /\ Retains(norm.fromList.items, norm.pairs)
        /\ Retains(norm.fromQuery.items, norm.pairs)

\* A params value of a form the library accepts per call: left out, None
\* (what get passes for a params left out), a dict, a list of pairs or a
\* query string.
AcceptedPerCall(o) == o.type \in {"absent", "NoneType"} \/ AcceptedParams(o)

\* C29: with per-call params of an accepted form (absent or None, dict, list
\* of pairs, query string) and an empty or non-empty persistent params
\* dict, a one-shot request call gets as far as its first transport call: the merge
\* and the construction of the display URL never fail.
C29_AcceptedParamsReachTransport ==
    (/\ client.variant = "SafeRequests"
     /\ AcceptedPerCall(CallKw.params)
     /\ client.persistant_params.type = "dict")
    => ~FailedBeforeTransport

\* ------------------------------------------------- __reduce__ round trip
\* __reduce__ (lines 181-190, 573-585): the class and the constructor
\* arguments of a client. SafeSession reads self.__codes__, an attribute
\* that __init__ (lines 133-139) never sets.
reduce(c) ==
    IF c.variant = "SafeSession"
    THEN [raised |-> "AttributeError", cls |-> "", args |-> <<>>]
    ELSE [raised |-> "", cls |-> "SafeRequests",
          args |-> <<c.retry_delay, c.retry_limit, c.retry_codes,
                     c.exp_backoff, c.max_exp_backoff, c.persistant_params,
                     c.persistant_headers, c.persistant_auth,
                     c.retry_exception, c.retry_exception_codes>>]

\* cls(*args): the client built from what __reduce__ returned.
Reconstruct(r) ==
    SafeRequests(r.args[1], r.args[2], r.args[3], r.args[4], r.args[5],
                 r.args[6], r.args[7], r.args[8], r.args[9], r.args[10])

InitReduce ==
    /\ client \in PolicyClients \cup SettingsClients
    /\ call = PlainCall
    /\ x = Idle
    /\ m = NoMerge
    /\ fcall = PlainCall
    /\ fx = Idle
    /\ dx = Idle
    /\ sx = Idle
    /\ made = NoCalls
    /\ th = NoThreads
    /\ norm = NoNorm
    /\ rebuilt = NotReduced

\* cls, args = client.__reduce__(); cls(*args)
Reduce ==
    /\ ~rebuilt.done
    /\ rebuilt' = IF reduce(client).raised # ""
                  THEN [done |-> TRUE, raised |-> reduce(client).raised,
                        obj |-> root]
                  ELSE [done |-> TRUE, raised |-> "",
                        obj |-> Reconstruct(reduce(client))]
    /\ UNCHANGED <<client, call, x, m, fcall, fx, dx, sx, made, th, norm>>

NextReduce == Reduce

SpecReduce == InitReduce /\ [][NextReduce]_vars

\* C30: for both client classes, building a client from the (class,
\* arguments) pair that __reduce__ returns succeeds, and the new client has
\* the retry policy fields and the persistent settings of the original.
C30_ReduceRoundTrip ==
    rebuilt.done =>
        /\ rebuilt.raised = ""
        /\ rebuilt.obj = client

====
